---------------------------- MODULE Spec2Model ----------------------------
(***************************************************************************)
(* Model of the MS80 extension of hecs (src/src/ms80/mod.rs): the          *)
(* process-wide, write-once entity serialization strategy, the textual     *)
(* "{id}v{generation}" form of an entity, and the serde Serialize and      *)
(* Deserialize implementations of Entity that choose between the strategy's *)
(* integer ids and the textual form.                                       *)
(*                                                                         *)
(* TLC's integers are 32-bit signed, so a u32 is held as two 16-bit limbs  *)
(* [h, l] (value h * 2^16 + l) and a u64 as two u32 halves [hi32, lo32].   *)
(* All arithmetic below is exact on the full u32 / u64 ranges.             *)
(***************************************************************************)
EXTENDS Integers, Sequences, FiniteSets, TLC

(***************************************************************************)
(* Option<T>                                                               *)
(***************************************************************************)
None == [some |-> FALSE]

Some(x) == [some |-> TRUE, val |-> x]

(***************************************************************************)
(* u32 and u64                                                             *)
(***************************************************************************)
Limb == 2^16

U32Of(n) == [h |-> n \div Limb, l |-> n % Limb]

Zero32 == U32Of(0)

U32MAX == [h |-> Limb - 1, l |-> Limb - 1]

IsZero32(x) == x.h = 0 /\ x.l = 0

\* `x as u64` for a u32 x
AsU64(x) == [hi32 |-> Zero32, lo32 |-> x]

\* `x << 32` on a u64: the high half is shifted out
Shl32(x) == [hi32 |-> x.lo32, lo32 |-> Zero32]

RECURSIVE BitOr16(_, _)
BitOr16(a, b) ==
    IF a = 0 THEN b
    ELSE IF b = 0 THEN a
    ELSE (IF a % 2 = 1 \/ b % 2 = 1 THEN 1 ELSE 0)
         + 2 * BitOr16(a \div 2, b \div 2)

BitOr32(a, b) == [h |-> BitOr16(a.h, b.h), l |-> BitOr16(a.l, b.l)]

\* `a | b` on u64
BitOr64(a, b) ==
    [hi32 |-> BitOr32(a.hi32, b.hi32), lo32 |-> BitOr32(a.lo32, b.lo32)]

\* a u64 literal below 2^31
U64Of(n) == AsU64(U32Of(n))

(***************************************************************************)
(* Strings are sequences of one-character strings.                         *)
(***************************************************************************)
Digits == <<"0", "1", "2", "3", "4", "5", "6", "7", "8", "9">>

DigitChars == {Digits[i] : i \in 1..10}

DigitChar(d) == Digits[d + 1]

DigitVal(c) == CHOOSE d \in 0..9 : Digits[d + 1] = c

\* Display for u32: decimal, no sign, no leading zeros
RECURSIVE U32ToString(_)
U32ToString(x) ==
    LET q1 == x.h \div 10
        t  == (x.h % 10) * Limb + x.l
        q  == [h |-> q1, l |-> t \div 10]
    IN  IF IsZero32(q) THEN <<DigitChar(t % 10)>>
        ELSE U32ToString(q) \o <<DigitChar(t % 10)>>

\* checked_mul(10) followed by checked_add(d) on a u32
CheckedMulAdd10(x, d) ==
    LET lo == x.l * 10 + d
        hi == x.h * 10 + lo \div Limb
    IN  IF hi >= Limb THEN None ELSE Some([h |-> hi, l |-> lo % Limb])

RECURSIVE ParseDigits(_, _)
ParseDigits(s, acc) ==
    IF s = <<>> THEN Some(acc)
    ELSE IF s[1] \notin DigitChars THEN None
    ELSE LET r == CheckedMulAdd10(acc, DigitVal(s[1]))
         IN  IF r = None THEN None ELSE ParseDigits(Tail(s), r.val)

\* str::parse::<u32>().ok(): empty, a lone sign, '-', a non-digit and a
\* value above u32::MAX are errors; one leading '+' is accepted.
ParseU32(s) ==
    IF s = <<>> THEN None
    ELSE IF Len(s) = 1 /\ s[1] \in {"+", "-"} THEN None
    ELSE ParseDigits(IF s[1] = "+" THEN Tail(s) ELSE s, Zero32)

(***************************************************************************)
(* Entity                                                                  *)
(***************************************************************************)
Entity(i, g) == [id |-> i, generation |-> g]

\* Entity::id
id(e) == e.id

\* Entity::generation
generation(e) == e.generation

\* Entity::to_bits
to_bits(e) == [hi32 |-> e.generation, lo32 |-> e.id]

\* Entity::from_bits: None when the generation field (high 32 bits) is zero
from_bits(bits) ==
    IF IsZero32(bits.hi32) THEN None
    ELSE Some(Entity(bits.lo32, bits.hi32))

\* faulty variant: the entity is built without the non-zero check
from_id_generationUnchecked(i, g) == Some(Entity(i, g))

\* faulty variant: the id is shifted into the high half
from_id_generationSwapped(i, g) ==
    from_bits(BitOr64(Shl32(AsU64(i)), AsU64(g)))

\* faulty variant: the shift is done on the u32, before widening (a
\* wrapping shift by 32 leaves the value in the low half)
from_id_generationNarrow(i, g) ==
    from_bits(BitOr64(AsU64(g), AsU64(i)))

from_id_generation(i, g) ==
    from_bits(BitOr64(Shl32(AsU64(g)), AsU64(i)))

\* index of the first 'v' of s, 0 when there is none
FirstV(s) ==
    IF \E i \in 1..Len(s) : s[i] = "v"
    THEN CHOOSE i \in 1..Len(s) : s[i] = "v" /\ \A j \in 1..(i - 1) : s[j] # "v"
    ELSE 0

\* faulty variant: s.split('v'), of which only the first two parts are read
splitLoose(s) ==
    LET i    == FirstV(s)
        rest == SubSeq(s, i + 1, Len(s))
        j    == FirstV(rest)
    IN  IF i = 0 THEN <<s>>
        ELSE <<SubSeq(s, 1, i - 1),
               IF j = 0 THEN rest ELSE SubSeq(rest, 1, j - 1)>>

\* s.splitn(2, 'v'): at most two parts, split at the first 'v'
splitn2(s) ==
    LET i == FirstV(s)
    IN  IF i = 0 THEN <<s>>
        ELSE <<SubSeq(s, 1, i - 1), SubSeq(s, i + 1, Len(s))>>

parse(s) ==
    LET split == splitn2(s)
        i     == ParseU32(split[1])
    IN  IF i = None THEN None
        ELSE IF Len(split) < 2 THEN None
        ELSE LET g == ParseU32(split[2])
             IN  IF g = None THEN None
                 ELSE from_id_generation(i.val, g.val)

\* format!("{}v{}", self.id(), self.generation())
label(e) == U32ToString(id(e)) \o <<"v">> \o U32ToString(generation(e))

(***************************************************************************)
(* Result<T, E> and the serde data model values the formats carry          *)
(***************************************************************************)
Ok(x) == [ok |-> TRUE, val |-> x]

Err(msg) == [ok |-> FALSE, msg |-> msg]

U64Value(v) == [kind |-> "u64", val |-> v]

StrValue(s) == [kind |-> "str", val |-> s]

(***************************************************************************)
(* Bounds and the inputs the operations are called with                    *)
(***************************************************************************)
NumThreads == 2

MaxInstalls == 2

Threads == 1..NumThreads

E73 == Entity(U32Of(7), U32Of(3))

E01 == Entity(U32Of(0), U32Of(1))

EMax == Entity(U32MAX, U32MAX)

\* valid entities (any id, a non-zero generation), with both extremes of
\* each field
Entities == {E73, E01, EMax, Entity(U32MAX, U32Of(1)), Entity(U32Of(0), U32MAX)}

\* integers a format may hold: small ones (high 32 bits zero) and the bits
\* of entities
U64Inputs == {U64Of(0), U64Of(5), U64Of(6), to_bits(E73), to_bits(EMax)}

MalformedLabels ==
    { <<>>,
      <<"a", "b", "c">>,
      <<"7">>,
      <<"7", "v", "x">>,
      <<"7", "v", "0">>,
      <<"7", "v", "3", "v", "4">>,
      <<"4", "2", "9", "4", "9", "6", "7", "2", "9", "6", "v", "1">> }

\* a text that is not the output of label but that parse accepts
LenientLabels == { <<"+", "7", "v", "3">> }

StrInputs == {label(e) : e \in Entities} \cup MalformedLabels \cup LenientLabels

(***************************************************************************)
(* EntitySerialization: the strategies a host may install.  Each is named, *)
(* and the three trait methods are pure functions of the name.             *)
(*   exact   ids 5 and 6 for E73 and E01, inverted exactly; numeric        *)
(*   skew    ids 5, 6, 0 for E73, E01, EMax; 6 inverts to EMax, 0 is not   *)
(*           recognised, and the bits of E73 are claimed for E01; numeric  *)
(*   text    id 5 for E73, inverted, but deserializes from text            *)
(*   decline declines every entity and every id; numeric                   *)
(***************************************************************************)
Strategies == {"exact", "skew", "text", "decline"}

entity_to_id(ser, e) ==
    CASE ser = "exact" ->
            IF e = E73 THEN Some(U64Of(5))
            ELSE IF e = E01 THEN Some(U64Of(6)) ELSE None
      [] ser = "skew" ->
            IF e = E73 THEN Some(U64Of(5))
            ELSE IF e = E01 THEN Some(U64Of(6))
            ELSE IF e = EMax THEN Some(U64Of(0)) ELSE None
      [] ser = "text" -> IF e = E73 THEN Some(U64Of(5)) ELSE None
      [] OTHER -> None

id_to_entity(ser, i) ==
    CASE ser = "exact" ->
            IF i = U64Of(5) THEN Some(E73)
            ELSE IF i = U64Of(6) THEN Some(E01) ELSE None
      [] ser = "skew" ->
            IF i = U64Of(5) THEN Some(E73)
            ELSE IF i = U64Of(6) THEN Some(EMax)
            ELSE IF i = to_bits(E73) THEN Some(E01) ELSE None
      [] ser = "text" -> IF i = U64Of(5) THEN Some(E73) ELSE None
      [] OTHER -> None

is_deserializing(ser) == ser \in {"exact", "skew", "decline"}

(***************************************************************************)
(* OnceLock<Box<dyn EntitySerialization>>                                  *)
(***************************************************************************)
\* faulty variant: a plain store, as a mutable static would do
OnceLockSetAlways(cell, value) == [cell |-> Some(value), ok |-> TRUE]

\* faulty variant: the write is guarded but every caller is told it won
OnceLockSetBlind(cell, value) ==
    [cell |-> IF cell = None THEN Some(value) ELSE cell, ok |-> TRUE]

\* faulty variant: the value is stored even when the caller is told it lost
OnceLockSetLate(cell, value) == [cell |-> Some(value), ok |-> cell = None]

\* OnceLock::set: one atomic step; writes only an empty cell
OnceLockSet(cell, value) ==
    IF cell = None THEN [cell |-> Some(value), ok |-> TRUE]
    ELSE [cell |-> cell, ok |-> FALSE]

(***************************************************************************)
(* impl Serialize for Entity, given the value SERIALIZATION.get() returned *)
(***************************************************************************)
\* faulty variant: the fallback is the packed bits, not the text
serializeBits(get, e) ==
    LET mapped == IF get = None THEN None ELSE entity_to_id(get.val, e)
    IN  IF mapped # None THEN Ok(U64Value(mapped.val))
        ELSE Ok(U64Value(to_bits(e)))

\* faulty variant: a strategy that declines is an error
serializeStrict(get, e) ==
    LET mapped == IF get = None THEN None ELSE entity_to_id(get.val, e)
    IN  IF mapped # None THEN Ok(U64Value(mapped.val))
        ELSE IF get # None THEN Err("entity has no id")
        ELSE Ok(StrValue(label(e)))

serialize(get, e) ==
    LET mapped == IF get = None THEN None ELSE entity_to_id(get.val, e)
    IN  IF mapped # None THEN Ok(U64Value(mapped.val))
        ELSE Ok(StrValue(label(e)))

(***************************************************************************)
(* impl Visitor for EntityHandleVisitor, given what SERIALIZATION.get()    *)
(* returns inside visit_u64                                                *)
(***************************************************************************)
\* faulty variant: the raw bits are tried before the strategy
visit_u64BitsFirst(get, i) ==
    LET entity == from_bits(i)
        mapped == IF get = None THEN None ELSE id_to_entity(get.val, i)
    IN  IF entity # None THEN Ok(entity.val)
        ELSE IF mapped # None THEN Ok(mapped.val)
        ELSE Err("invalid hecs entity ID")

\* faulty variant: the strategy is not consulted
visit_u64NoMapping(get, i) ==
    LET entity == from_bits(i)
    IN  IF entity = None THEN Err("invalid hecs entity ID") ELSE Ok(entity.val)

visit_u64(get, i) ==
    LET mapped == IF get = None THEN None ELSE id_to_entity(get.val, i)
    IN  IF mapped # None THEN Ok(mapped.val)
        ELSE LET entity == from_bits(i)
             IN  IF entity = None THEN Err("invalid hecs entity ID")
                 ELSE Ok(entity.val)

\* faulty variant: the visitor also accepts the textual form
visit_strParse(s) ==
    LET handle == parse(s)
    IN  IF handle = None THEN Err("invalid entity") ELSE Ok(handle.val)

\* every other visit_* keeps serde's default: an invalid-type error
visit_str(s) == Err("invalid type: string, expected an integer entity ID")

(***************************************************************************)
(* impl Deserialize for Entity, given the value SERIALIZATION.get()        *)
(* returned.  The result is either final, or the call of visit_u64 the     *)
(* deserializer makes for an integer input.                                *)
(***************************************************************************)
Final(out) == [visit |-> FALSE, out |-> out]

Visit(i) == [visit |-> TRUE, id |-> i]

\* String::deserialize: a string, or an invalid-type error
StringDeserialize(input) ==
    IF input.kind = "str" THEN Ok(input.val)
    ELSE Err("invalid type: integer, expected a string")

\* faulty variant: a string input is parsed as text (a visit_str that
\* falls back to Entity::parse)
deserialize_u64Lenient(input) ==
    IF input.kind = "u64" THEN Visit(input.val)
    ELSE LET handle == parse(input.val)
         IN  IF handle = None THEN Final(Err("invalid entity"))
             ELSE Final(Ok(handle.val))

\* deserializer.deserialize_u64(EntityHandleVisitor)
deserialize_u64(input) ==
    IF input.kind = "u64" THEN Visit(input.val) ELSE Final(visit_str(input.val))

\* faulty variant: the path is chosen by the input's type, not by the
\* strategy's mode
deserializeSniff(get, input) ==
    IF input.kind = "u64" THEN deserialize_u64(input)
    ELSE LET handle == parse(input.val)
         IN  IF handle = None THEN Final(Err("invalid entity"))
             ELSE Final(Ok(handle.val))

deserialize(get, input) ==
    IF get # None /\ is_deserializing(get.val) THEN deserialize_u64(input)
    ELSE LET l == StringDeserialize(input)
         IN  IF ~l.ok THEN Final(l)
             ELSE LET handle == parse(l.val)
                  IN  IF handle = None THEN Final(Err("invalid entity"))
                      ELSE Final(Ok(handle.val))

(***************************************************************************)
(* State                                                                   *)
(*   SERIALIZATION  the static OnceLock: None, or Some(strategy)           *)
(*   pc, frame      per thread: where it is inside a call and the call's   *)
(*                  locals ("set": inside set_entity_serialization before  *)
(*                  OnceLock::set; "visit_u64": inside deserialize, before *)
(*                  the visitor's own SERIALIZATION.get())                 *)
(*   last           the call that returned last: its name, argument, the   *)
(*                  registry values it read and its return value; for a    *)
(*                  set_entity_serialization also the threads that were    *)
(*                  between the two reads of a deserialize when it         *)
(*                  returned, and for a numeric deserialize whether the    *)
(*                  call that returned just before its second read was     *)
(*                  such a set_entity_serialization                        *)
(*   installs       history of set_entity_serialization: calls begun,      *)
(*                  calls begun on an empty registry, calls returned, the  *)
(*                  value of the first call that returned, and the values  *)
(*                  of the calls that returned true, in order              *)
(***************************************************************************)
VARIABLES SERIALIZATION, pc, frame, last, installs

vars == <<SERIALIZATION, pc, frame, last, installs>>

NoFrame == [call |-> "none"]

NoCall == [op |-> "none"]

Init ==
    /\ SERIALIZATION = None
    /\ pc = [t \in Threads |-> "idle"]
    /\ frame = [t \in Threads |-> NoFrame]
    /\ last = NoCall
    /\ installs = [begun |-> 0, onEmpty |-> 0, returned |-> 0,
                   first |-> None, winners |-> <<>>]

\* set_entity_serialization(value) is entered: Box::new(value)
SetEnter(t, value) ==
    /\ pc[t] = "idle"
    /\ installs.begun < MaxInstalls
    /\ pc' = [pc EXCEPT ![t] = "set"]
    /\ frame' = [frame EXCEPT ![t] = [call |-> "set", value |-> value]]
    /\ installs' = [installs EXCEPT
                      !.begun = @ + 1,
                      !.onEmpty = IF SERIALIZATION = None THEN @ + 1 ELSE @]
    /\ UNCHANGED <<SERIALIZATION, last>>

\* SERIALIZATION.set(..).is_ok() and the return
SetReturn(t) ==
    /\ pc[t] = "set"
    /\ LET r == OnceLockSet(SERIALIZATION, frame[t].value)
       IN  /\ SERIALIZATION' = r.cell
           /\ last' = [op |-> "set_entity_serialization",
                       arg |-> frame[t].value,
                       get |-> SERIALIZATION,
                       during |-> {u \in Threads : pc[u] = "visit_u64"},
                       out |-> r.ok]
           /\ installs' = [installs EXCEPT
                             !.returned = @ + 1,
                             !.winners = IF r.ok
                                         THEN Append(@, frame[t].value)
                                         ELSE @,
                             !.first = IF @ = None THEN Some(frame[t].value)
                                       ELSE @]
    /\ pc' = [pc EXCEPT ![t] = "idle"]
    /\ frame' = [frame EXCEPT ![t] = NoFrame]

\* Entity::serialize: one SERIALIZATION.get(), then pure code
Serialize(t, e) ==
    /\ pc[t] = "idle"
    /\ last' = [op |-> "serialize", arg |-> e, get |-> SERIALIZATION,
                out |-> serialize(SERIALIZATION, e)]
    /\ UNCHANGED <<SERIALIZATION, pc, frame, installs>>

\* faulty variant: a failed deserialize clears the registry
DeserializePoisoning(t, input) ==
    /\ pc[t] = "idle"
    /\ LET r == deserialize(SERIALIZATION, input)
       IN  IF r.visit
           THEN /\ pc' = [pc EXCEPT ![t] = "visit_u64"]
                /\ frame' = [frame EXCEPT ![t] =
                               [call |-> "deserialize", input |-> input,
                                get |-> SERIALIZATION, id |-> r.id]]
                /\ UNCHANGED <<SERIALIZATION, last>>
           ELSE /\ last' = [op |-> "deserialize", arg |-> input,
                            get |-> SERIALIZATION, visited |-> FALSE,
                            out |-> r.out]
                /\ SERIALIZATION' = IF r.out.ok THEN SERIALIZATION ELSE None
                /\ UNCHANGED <<pc, frame>>
    /\ UNCHANGED installs

\* Entity::deserialize up to its return or to the deserializer's call of
\* visit_u64
Deserialize(t, input) ==
    /\ pc[t] = "idle"
    /\ LET r == deserialize(SERIALIZATION, input)
       IN  IF r.visit
           THEN /\ pc' = [pc EXCEPT ![t] = "visit_u64"]
                /\ frame' = [frame EXCEPT ![t] =
                               [call |-> "deserialize", input |-> input,
                                get |-> SERIALIZATION, id |-> r.id]]
                /\ UNCHANGED last
           ELSE /\ last' = [op |-> "deserialize", arg |-> input,
                            get |-> SERIALIZATION, visited |-> FALSE,
                            out |-> r.out]
                /\ UNCHANGED <<pc, frame>>
    /\ UNCHANGED <<SERIALIZATION, installs>>

\* EntityHandleVisitor::visit_u64: the second SERIALIZATION.get(), and the
\* return of deserialize
VisitU64(t) ==
    /\ pc[t] = "visit_u64"
    /\ last' = [op |-> "deserialize", arg |-> frame[t].input,
                get |-> frame[t].get, visited |-> TRUE,
                get2 |-> SERIALIZATION,
                raced |-> /\ last.op = "set_entity_serialization"
                          /\ t \in last.during,
                out |-> visit_u64(SERIALIZATION, frame[t].id)]
    /\ pc' = [pc EXCEPT ![t] = "idle"]
    /\ frame' = [frame EXCEPT ![t] = NoFrame]
    /\ UNCHANGED <<SERIALIZATION, installs>>

Next ==
    \E t \in Threads :
        \/ \E value \in Strategies : SetEnter(t, value)
        \/ SetReturn(t)
        \/ \E e \in Entities : Serialize(t, e)
        \/ \E v \in U64Inputs : Deserialize(t, U64Value(v))
        \/ \E s \in StrInputs : Deserialize(t, StrValue(s))
        \/ VisitU64(t)

Spec == Init /\ [][Next]_vars

(***************************************************************************)
(* The codec alone: Entity::parse and Entity::from_id_generation applied   *)
(* to every text over a small alphabet up to MaxTextLen characters, to     *)
(* some longer texts, and to every pair of sample u32 values.              *)
(***************************************************************************)
MaxTextLen == 3

Alphabet == {"0", "3", "7", "v", "x", "+"}

ShortTexts == UNION {[1..n -> Alphabet] : n \in 0..MaxTextLen}

TenDigitsOver == <<"4", "2", "9", "4", "9", "6", "7", "2", "9", "6">>

TenDigitsMax == <<"4", "2", "9", "4", "9", "6", "7", "2", "9", "5">>

LongTexts ==
    { <<"a", "b", "c">>,
      <<"7", "v", "3", "v", "4">>,
      <<"-", "7", "v", "3">>,
      <<" ", "7", "v", "3">>,
      <<"0", "0", "7", "v", "0", "3">>,
      TenDigitsOver \o <<"v", "1">>,
      <<"7", "v">> \o TenDigitsOver,
      TenDigitsMax \o <<"v">> \o TenDigitsMax,
      <<"9">> \o TenDigitsMax \o <<"v", "1">> }

Texts == ShortTexts \cup LongTexts

U32Samples ==
    { U32Of(0), U32Of(1), U32Of(7), U32Of(65535), U32Of(65536),
      [h |-> 32768, l |-> 0], U32MAX }

ParseText(s) ==
    /\ last' = [op |-> "parse", arg |-> s, out |-> parse(s)]
    /\ UNCHANGED <<SERIALIZATION, pc, frame, installs>>

FromIdGeneration(i, g) ==
    /\ last' = [op |-> "from_id_generation",
                arg |-> [id |-> i, generation |-> g],
                out |-> from_id_generation(i, g)]
    /\ UNCHANGED <<SERIALIZATION, pc, frame, installs>>

CodecNext ==
    \/ \E s \in Texts : ParseText(s)
    \/ \E i \in U32Samples, g \in U32Samples : FromIdGeneration(i, g)

CodecSpec == Init /\ [][CodecNext]_vars

(***************************************************************************)
(* Properties                                                              *)
(***************************************************************************)
IsSet == last.op = "set_entity_serialization"

IsSerialize == last.op = "serialize"

IsDeserialize == last.op = "deserialize"

\* equality of two format values, kind first (a string and an integer are
\* never compared)
SameValue(v, w) == v.kind = w.kind /\ v.val = w.val

\* the result `out` of serialize is the value w
Emits(out, w) == out.ok /\ SameValue(out.val, w)

\* the call that returned last read an installed strategy in numeric mode
NumericMode == last.get # None /\ is_deserializing(last.get.val)

\* C1: from an empty registry the first set_entity_serialization to return
\* returns true and every later one returns false; the registry, and every
\* value serialize or deserialize read from it, is the first call's strategy.
C1_FirstInstallOnly ==
    /\ IsSet => (last.out <=> installs.returned = 1)
    /\ installs.returned >= 1 => SERIALIZATION = installs.first
    /\ (IsSerialize \/ IsDeserialize) /\ last.get # None
          => last.get = installs.first
    /\ IsDeserialize /\ last.visited /\ last.get2 # None
          => last.get2 = installs.first

C1_Witness ==
    /\ IsSet
    /\ installs.returned >= 2
    /\ ~last.out
    /\ Some(last.arg) # installs.first
    /\ SERIALIZATION = installs.first

\* C2: whatever the interleaving of concurrent set_entity_serialization
\* calls, once any has returned exactly one call has returned true, and the
\* registry holds that call's strategy.
C2_ExactlyOneWinner ==
    /\ Len(installs.winners) <= 1
    /\ installs.returned >= 1 =>
          /\ Len(installs.winners) = 1
          /\ SERIALIZATION = Some(installs.winners[1])

\* two calls were both inside set_entity_serialization while the registry
\* was empty, and both have returned
C2_Witness ==
    /\ installs.onEmpty >= 2
    /\ installs.returned >= 2
    /\ \A t \in Threads : pc[t] # "set"
    /\ Len(installs.winners) = 1
    /\ IsSet /\ ~last.out /\ last.arg # installs.winners[1]

\* C3: the registry changes at most once, from empty to occupied; no step
\* of any operation empties or replaces an occupied registry.
C3_WriteOnce ==
    [][SERIALIZATION' # SERIALIZATION
          => SERIALIZATION = None /\ SERIALIZATION' # None]_vars

C3_Witness ==
    /\ SERIALIZATION # None
    /\ installs.returned >= 2
    /\ IsDeserialize /\ last.visited /\ last.get2 = SERIALIZATION

\* the text the format string "{}v{}" must give, written out
ExpectedLabel(e) ==
    LET max == <<"4", "2", "9", "4", "9", "6", "7", "2", "9", "5">>
    IN  CASE e = E73 -> <<"7", "v", "3">>
          [] e = E01 -> <<"0", "v", "1">>
          [] e = EMax -> max \o <<"v">> \o max
          [] e = Entity(U32MAX, U32Of(1)) -> max \o <<"v", "1">>
          [] e = Entity(U32Of(0), U32MAX) -> <<"0", "v">> \o max

\* C4: serialize emits the plain u64 id exactly when a strategy is installed
\* and its entity_to_id returns Some(id); otherwise (nothing installed, or
\* the strategy declines) it emits the text "{id}v{generation}".
C4_EncodeChoice ==
    IsSerialize =>
        LET mapped == IF last.get = None THEN None
                      ELSE entity_to_id(last.get.val, last.arg)
        IN  /\ mapped # None => Emits(last.out, U64Value(mapped.val))
            /\ mapped = None
                  => Emits(last.out, StrValue(ExpectedLabel(last.arg)))

\* the installed strategy declined E73 and the text "7v3" was emitted
C4_Witness ==
    /\ IsSerialize
    /\ last.get = Some("decline")
    /\ last.arg = E73
    /\ Emits(last.out, StrValue(<<"7", "v", "3">>))

\* C5: serialize never fails: with the registry empty, with a strategy that
\* answers and with one that declines, it returns an external value.
C5_EncodeNeverFails ==
    /\ IsSerialize => last.out.ok
    /\ \A e \in Entities : serialize(SERIALIZATION, e).ok

C5_Witness ==
    /\ IsSerialize
    /\ last.get # None
    /\ entity_to_id(last.get.val, last.arg) = None
    /\ last.out.ok

\* C6: with a strategy installed whose is_deserializing() is true, a text
\* input fails with an error and is never parsed as text.
C6_NumericRejectsText ==
    IsDeserialize /\ NumericMode /\ last.arg.kind = "str" =>
        /\ ~last.out.ok
        /\ last.out.msg # "invalid entity"
        /\ ~last.visited

C6_Witness ==
    /\ IsDeserialize
    /\ last.get = Some("exact")
    /\ SameValue(last.arg, StrValue(<<"7", "v", "3">>))
    /\ ~last.out.ok

\* C7: in numeric mode, for an integer id: the strategy's id_to_entity(id)
\* when it is Some; otherwise the entity with id = low 32 bits and
\* generation = high 32 bits when the high bits are non-zero; otherwise the
\* error "invalid hecs entity ID".
C7_NumericDecode ==
    IsDeserialize /\ NumericMode /\ last.arg.kind = "u64" =>
        LET i      == last.arg.val
            mapped == id_to_entity(last.get.val, i)
        IN  /\ last.visited
            /\ mapped # None => last.out = Ok(mapped.val)
            /\ mapped = None /\ ~IsZero32(i.hi32)
                  => last.out = Ok(Entity(i.lo32, i.hi32))
            /\ mapped = None /\ IsZero32(i.hi32)
                  => last.out = Err("invalid hecs entity ID")

\* the strategy declined the id and the raw bits were unpacked
C7_Witness ==
    /\ IsDeserialize /\ last.visited
    /\ last.get = Some("exact")
    /\ SameValue(last.arg, U64Value(to_bits(EMax)))
    /\ last.out = Ok(EMax)

\* C8: with nothing installed, or a strategy whose is_deserializing() is
\* false, deserialize reads text only: an integer input is an error and
\* never reaches visit_u64, a text parse rejects is the error "invalid
\* entity", and "7v3" is the entity (7, 3).
C8_TextDecode ==
    IsDeserialize /\ ~NumericMode =>
        /\ ~last.visited
        /\ last.arg.kind = "u64" => ~last.out.ok
        /\ last.arg.kind = "str" =>
              /\ last.arg.val \in MalformedLabels
                    => last.out = Err("invalid entity")
              /\ last.arg.val = <<"7", "v", "3">> => last.out = Ok(E73)
              /\ parse(last.arg.val) = None
                    => last.out = Err("invalid entity")
              /\ \A e \in Entities :
                    last.arg.val = ExpectedLabel(e) => last.out = Ok(e)

\* an integer that is the bits of an entity is refused with nothing installed
C8_Witness ==
    /\ IsDeserialize
    /\ last.get = None
    /\ SameValue(last.arg, U64Value(to_bits(E73)))
    /\ ~last.out.ok

\* the entities a strategy maps to an id that it inverts to the same entity
Inverted(ser) ==
    {e \in Entities :
        LET i == entity_to_id(ser, e)
        IN  i # None /\ id_to_entity(ser, i.val) = Some(e)}

\* C9: with a strategy installed whose is_deserializing() is true,
\* deserializing what serialize emitted for an entity the strategy inverts
\* gives that entity back.
C9_MappedRoundTrip ==
    IsDeserialize /\ NumericMode =>
        \A e \in Inverted(last.get.val) :
            Emits(serialize(last.get, e), last.arg) => last.out = Ok(e)

C9_Witness ==
    /\ IsDeserialize /\ last.visited
    /\ last.get = Some("skew")
    /\ E73 \in Inverted("skew") /\ E01 \notin Inverted("skew")
    /\ Emits(serialize(last.get, E73), last.arg)
    /\ last.out = Ok(E73)

\* C10: parse(label(e)) = Some(e) for every valid entity, label of (7, 3)
\* is exactly "7v3", and with nothing installed deserializing what
\* serialize emitted gives the entity back.
C10_TextRoundTrip ==
    /\ IsSerialize /\ last.out.val.kind = "str"
          => parse(last.out.val.val) = Some(last.arg)
    /\ IsSerialize /\ last.get = None /\ last.arg = E73
          => Emits(last.out, StrValue(<<"7", "v", "3">>))
    /\ IsDeserialize /\ last.get = None =>
          \A e \in Entities :
              Emits(serialize(None, e), last.arg) => last.out = Ok(e)

C10_Witness ==
    /\ IsDeserialize
    /\ last.get = None
    /\ Emits(serialize(None, EMax), last.arg)
    /\ last.out = Ok(EMax)

\* C11: deserialize never returns an entity whose generation is zero: an
\* integer whose high 32 bits are zero and that the strategy does not
\* recognise is an error, so is a text whose generation part is "0", and an
\* error carries no entity at all.
C11_NoZeroGeneration ==
    /\ \A v \in U64Inputs : IsZero32(v.hi32) => from_bits(v) = None
    /\ IsDeserialize /\ last.out.ok => ~IsZero32(generation(last.out.val))
    /\ IsDeserialize /\ ~last.out.ok => DOMAIN last.out = {"ok", "msg"}
    /\ IsDeserialize /\ last.visited /\ IsZero32(last.arg.val.hi32)
          /\ id_to_entity(last.get.val, last.arg.val) = None
          => last.out = Err("invalid hecs entity ID")
    /\ IsDeserialize /\ ~NumericMode /\ last.arg.kind = "str" =>
          LET split == splitn2(last.arg.val)
          IN  Len(split) = 2 /\ split[2] = <<"0">>
                 => last.out = Err("invalid entity")

\* the text "7v0" was refused
C11_Witness ==
    /\ IsDeserialize
    /\ ~NumericMode
    /\ SameValue(last.arg, StrValue(<<"7", "v", "0">>))
    /\ last.out = Err("invalid entity")

\* the errors deserialize returns: serde's invalid-type errors and the two
\* custom messages
DecodeErrors ==
    { "invalid entity",
      "invalid hecs entity ID",
      "invalid type: integer, expected a string",
      "invalid type: string, expected an integer entity ID" }

\* C12: a step in which deserialize returns an error changes nothing but
\* that call's own result: the registry, the install history and every
\* other thread's call in progress are as before, and the error is one of
\* the typed decode errors.  (Every result is a function of the registry
\* value read and the argument, so later calls are unaffected.)
C12_FailedDecodeIsLocal ==
    [][/\ pc' = pc /\ last'.op = "deserialize" /\ ~last'.visited
             /\ ~last'.out.ok
          => /\ SERIALIZATION' = SERIALIZATION
             /\ installs' = installs
             /\ frame' = frame
             /\ last'.out.msg \in DecodeErrors
       /\ \A t \in Threads :
             pc[t] = "visit_u64" /\ pc'[t] = "idle" /\ ~last'.out.ok
             => /\ SERIALIZATION' = SERIALIZATION
                /\ installs' = installs
                /\ \A u \in Threads \ {t} :
                      pc'[u] = pc[u] /\ frame'[u] = frame[u]
                /\ last'.out.msg \in DecodeErrors]_vars

\* a numeric decode failed while another thread is between the two reads
\* of its own decode, and the registry is what the failed decode read
C12_Witness ==
    /\ IsDeserialize /\ last.visited
    /\ last.out = Err("invalid hecs entity ID")
    /\ SERIALIZATION = last.get
    /\ \E u \in Threads : pc[u] = "visit_u64"

\* a part of a label is the text of a u32: an optional '+', then one or
\* more decimal digits whose value is at most 4294967295
RECURSIVE StripZeros(_)
StripZeros(d) ==
    IF d # <<>> /\ d[1] = "0" THEN StripZeros(Tail(d)) ELSE d

RECURSIVE DigitsLeq(_, _)
DigitsLeq(a, b) ==
    IF a = <<>> THEN TRUE
    ELSE IF a[1] # b[1] THEN DigitVal(a[1]) < DigitVal(b[1])
    ELSE DigitsLeq(Tail(a), Tail(b))

IsU32Text(p) ==
    LET d == IF p # <<>> /\ p[1] = "+" THEN Tail(p) ELSE p
        z == StripZeros(d)
    IN  /\ d # <<>>
        /\ \A k \in 1..Len(d) : d[k] \in DigitChars
        /\ Len(z) < 10 \/ (Len(z) = 10 /\ DigitsLeq(z, TenDigitsMax))

\* C13: parse splits at the first 'v' only and fails when there is no 'v'
\* or when either part is not the text of a u32: "abc", "7", "7vx" fail, as
\* do an empty part, a part above u32::MAX and a second 'v' ("7v3v4").
C13_MalformedTextRejected ==
    last.op = "parse" =>
        LET s  == last.arg
            vs == {k \in 1..Len(s) : s[k] = "v"}
        IN  /\ vs = {} => last.out = None
            /\ vs # {} =>
                  LET k      == CHOOSE m \in vs : \A n \in vs : m <= n
                      before == SubSeq(s, 1, k - 1)
                      after  == SubSeq(s, k + 1, Len(s))
                  IN  ~IsU32Text(before) \/ ~IsU32Text(after)
                         => last.out = None
            /\ s \in { <<"a", "b", "c">>, <<"7">>, <<"7", "v", "x">>,
                       <<"7", "v", "3", "v", "4">>, <<"v", "3">>,
                       <<"7", "v">>, <<>>,
                       TenDigitsOver \o <<"v", "1">>,
                       <<"7", "v">> \o TenDigitsOver }
                  => last.out = None
            /\ s = <<"7", "v", "3">> => last.out = Some(E73)

C13_Witness ==
    /\ last.op = "parse"
    /\ last.arg = <<"7", "v", "3", "v", "4">>
    /\ last.out = None

\* C14: for every id and every generation from 1 to u32::MAX the packed
\* value has the generation in its high and the id in its low 32 bits,
\* nothing lost, and unpacking it gives the entity back.
C14_PackUnpack ==
    last.op = "from_id_generation" /\ ~IsZero32(last.arg.generation) =>
        LET e == Entity(last.arg.id, last.arg.generation)
        IN  /\ last.out = Some(e)
            /\ to_bits(last.out.val)
                  = [hi32 |-> last.arg.generation, lo32 |-> last.arg.id]
            /\ from_bits(to_bits(e)) = Some(e)

C14_Witness ==
    /\ last.op = "from_id_generation"
    /\ last.arg = [id |-> U32MAX, generation |-> U32MAX]
    /\ last.out = Some(EMax)

\* C15: a numeric deserialize reads the registry twice; whatever installs
\* run in between, the second read (in visit_u64) gives the strategy the
\* first read gave, which is installed and in numeric mode.
C15_SecondReadSameStrategy ==
    /\ \A t \in Threads :
          pc[t] = "visit_u64" =>
              /\ frame[t].get # None
              /\ is_deserializing(frame[t].get.val)
              /\ SERIALIZATION = frame[t].get
    /\ IsDeserialize /\ last.visited =>
          /\ last.get # None
          /\ is_deserializing(last.get.val)
          /\ last.get2 = last.get

\* a set_entity_serialization returned between the two reads
C15_Witness ==
    /\ IsDeserialize /\ last.visited
    /\ last.raced
    /\ last.get2 = last.get
    /\ last.out.ok

AllowedOutput(out, e) ==
    \/ Emits(out, serialize(None, e).val)
    \/ \E k \in 1..Len(installs.winners) :
          Emits(out, serialize(Some(installs.winners[k]), e).val)

\* C17: serialize reads the registry once, so with installs running
\* concurrently its output is the result for the empty registry or for the
\* strategy whose install returned true, never that of a strategy whose
\* install returned false or has not returned.
C17_EncodeSeesOneRegistry ==
    IsSerialize =>
        /\ AllowedOutput(last.out, last.arg)
        /\ last.get # None =>
              /\ Len(installs.winners) = 1
              /\ last.get = Some(installs.winners[1])

\* "exact" is installed and declines EMax; an install of "skew", which
\* would give the id 0, is in progress while serialize emits the text
C17_Witness ==
    /\ IsSerialize
    /\ last.get = Some("exact")
    /\ last.arg = EMax
    /\ last.out.val.kind = "str"
    /\ \E u \in Threads : pc[u] = "set" /\ frame[u].value = "skew"
    /\ serialize(Some("skew"), EMax).val.kind = "u64"

=============================================================================
